---- MODULE Spec2Model ----
(***************************************************************************)
(* pdfcompress (src/main.py): the batch runner `main`, the orchestrator    *)
(* `compress_one`, the two strategies and the commit step                  *)
(* `safe_write_output`, over an abstract file system.                      *)
(*                                                                         *)
(* A path is the sequence of its components.  A file is a record           *)
(* [exists, size, origin]: origin says who wrote it ("pre" for an output   *)
(* that was there before the first invocation, "ghostscript", "pikepdf").  *)
(* The external tools and the input files are the environment: what        *)
(* Ghostscript and pikepdf do on one call, and the size stat() reports     *)
(* for a source, are nondeterministic choices among the outcomes the code  *)
(* distinguishes.  The input folder and the output folder are disjoint.    *)
(***************************************************************************)
EXTENDS Integers, Sequences, FiniteSets, TLC

\* ---------------------------------------------------------------- bounds
MaxFiles == 2      \* PDF files that may lie under the input folder
MaxSize  == 1      \* file sizes range over 0..MaxSize
MaxDepth == 3      \* components of a source path given to ensure_output_path

Sizes == 0..MaxSize

\* ------------------------------------------------------------- constants
QUALITY_MAP ==
    [screen |-> "/screen", ebook |-> "/ebook",
     printer |-> "/printer", prepress |-> "/prepress"]

None == <<>>                     \* Python's None, for an absent path
InRoot == <<"in">>               \* the folder given as --folder
OutDir == <<"out">>              \* the folder given as --out
TxtFile == <<"in", "notes.txt">> \* a file that is not a PDF
MissingPath == <<"missing">>     \* a path at which nothing exists

\* The PDF files that may exist under InRoot, by number; the first two have
\* the same file name in different folders.
FileTable ==
    << <<"in", "a.pdf">>, <<"in", "sub", "a.pdf">>,
       <<"in", "c.pdf">>, <<"in", "sub", "d.pdf">> >>

AllSources == {FileTable[k] : k \in 1..MaxFiles}

\* Code-point order of the path components in use (Python compares str so).
NameRank ==
    [n \in {"a.pdf", "b.pdf", "c.pdf", "d.pdf", "in", "missing",
            "notes.txt", "out", "sub"} |->
        CASE n = "a.pdf" -> 1 [] n = "b.pdf" -> 2 [] n = "c.pdf" -> 3
          [] n = "d.pdf" -> 4 [] n = "in" -> 5 [] n = "missing" -> 6
          [] n = "notes.txt" -> 7 [] n = "out" -> 8 [] n = "sub" -> 9]

\* ------------------------------------------------------------ path algebra
Name(p) == p[Len(p)]                                  \* Path.name
Parent(p) == SubSeq(p, 1, Len(p) - 1)                 \* Path.parent

\* Path.suffix.lower() == ".pdf"
IsPdfSuffix(p) == Name(p) \in {"a.pdf", "b.pdf", "c.pdf", "d.pdf"}

IsUnder(p, root) ==
    /\ Len(root) <= Len(p)
    /\ SubSeq(p, 1, Len(root)) = root

\* A relative path that keeps the last component only.
relative_to_name(p, root) == <<Name(p)>>

\* Path.relative_to: the components after root; raises when p is not under root.
relative_to(p, root) == SubSeq(p, Len(root) + 1, Len(p))

\* ensure_output_path without the relative_to branch.
ensure_output_path_by_name(src, input_root, out_dir) ==
    out_dir \o <<Name(src)>>

ensure_output_path(src, input_root, out_dir) ==
    IF input_root = None
    THEN out_dir \o <<Name(src)>>
    ELSE IF IsUnder(src, input_root)
         THEN out_dir \o relative_to(src, input_root)
         ELSE out_dir \o <<Name(src)>>

\* Path.__lt__: lexicographic on the components.
RECURSIVE PathLess(_, _)
PathLess(p, q) ==
    IF p = <<>> THEN q # <<>>
    ELSE IF q = <<>> THEN FALSE
    ELSE IF Head(p) = Head(q) THEN PathLess(Tail(p), Tail(q))
    ELSE NameRank[Head(p)] < NameRank[Head(q)]

\* The paths of S in descending order: an enumeration that is not sorted.
RECURSIVE descending(_)
descending(S) ==
    IF S = {} THEN <<>>
    ELSE LET m == CHOOSE x \in S : \A y \in S \ {x} : PathLess(y, x)
         IN  <<m>> \o descending(S \ {m})

\* sorted(S): the ascending sequence of the paths of S.
RECURSIVE sorted(_)
sorted(S) ==
    IF S = {} THEN <<>>
    ELSE LET m == CHOOSE x \in S : \A y \in S \ {x} : PathLess(x, y)
         IN  <<m>> \o sorted(S \ {m})

\* find_pdfs_in_folder: glob matches the direct children, rglob every
\* descendant.
find_pdfs_in_folder(existing, folder, recursive) ==
    {p \in existing :
        /\ IsPdfSuffix(p)
        /\ IF recursive THEN IsUnder(p, folder) /\ p # folder
           ELSE Parent(p) = folder}

AllDests ==
    {ensure_output_path(s, r, OutDir) : s \in AllSources, r \in {None, InRoot}}

\* The directories a destination can lie in.
AllDirs == {OutDir} \cup {Parent(d) : d \in AllDests}

\* ------------------------------------------------------------------ files
NoFile == [exists |-> FALSE, size |-> 0, origin |-> "none"]
File(size, origin) == [exists |-> TRUE, size |-> size, origin |-> origin]

\* ---------------------------------------------------------------- results
ZeroPct == [num |-> 0, den |-> 1]                      \* 0.0
Pct(saved, before) ==                                  \* saved / before * 100.0
    IF before # 0 THEN [num |-> saved * 100, den |-> before] ELSE ZeroPct

CompressResult(src, dst, method, before, after, saved, pct, skipped, message) ==
    [src |-> src, dst |-> dst, method |-> method,
     before_bytes |-> before, after_bytes |-> after,
     saved_bytes |-> saved, saved_pct |-> pct,
     skipped |-> skipped, message |-> message]

NoResult ==
    CompressResult(None, None, <<"none">>, 0, 0, 0, ZeroPct, TRUE, <<>>)

MethodDryRun == <<"dry-run">>
MethodFailed == <<"failed">>
MethodPikepdf == <<"pikepdf", "optimize">>
MethodGhostscript(quality) == <<"ghostscript", quality>>

\* ------------------------------------------------------------- strategies
\* What one call of a strategy can do: (ok, msg) as returned, and `out`, the
\* file it left at tmp_out (NoFile: it wrote nothing there).
Outcome(ok, msg, out) == [ok |-> ok, msg |-> msg, out |-> out]

GsNotFound == "Ghostscript (gs) not found."
GsUnknownQuality == "Unknown quality"
GsFailed == "Ghostscript failed."
GsExecError == "Ghostscript execution error"
GsOk == "Compressed with Ghostscript."
PikepdfMissing == "pikepdf is not installed (fallback unavailable)."
PikepdfFailed == "pikepdf failed"
PikepdfOk == "Optimized with pikepdf (structure/streams)."

\* run_ghostscript_compress: gs missing; else an unknown quality; else the
\* process cannot be launched, exits non-zero (perhaps leaving a partial
\* output) or exits zero (the exit code is all the code looks at).
run_ghostscript_compress(quality) ==
    {Outcome(FALSE, GsNotFound, NoFile)}
    \cup
    (IF quality \notin DOMAIN QUALITY_MAP
     THEN {Outcome(FALSE, GsUnknownQuality, NoFile)}
     ELSE {Outcome(FALSE, GsExecError, NoFile)}
          \cup {Outcome(FALSE, GsFailed, f) :
                  f \in {NoFile} \cup {File(s, "ghostscript") : s \in Sizes}}
          \cup {Outcome(TRUE, GsOk, f) :
                  f \in {NoFile} \cup {File(s, "ghostscript") : s \in Sizes}})

\* A fallback that may report success without having written tmp_out.
run_pikepdf_optimize_no_write(loaded) ==
    IF ~loaded
    THEN {Outcome(FALSE, PikepdfMissing, NoFile)}
    ELSE {Outcome(FALSE, PikepdfFailed, NoFile),
          Outcome(TRUE, PikepdfOk, NoFile)}
         \cup {Outcome(TRUE, PikepdfOk, File(s, "pikepdf")) : s \in Sizes}

\* run_pikepdf_optimize: unavailable when the import failed; else open and
\* save raise, or save returns after writing tmp_out.
run_pikepdf_optimize(loaded) ==
    IF ~loaded
    THEN {Outcome(FALSE, PikepdfMissing, NoFile)}
    ELSE {Outcome(FALSE, PikepdfFailed, NoFile)}
         \cup {Outcome(TRUE, PikepdfOk, File(s, "pikepdf")) : s \in Sizes}

\* ------------------------------------------------------------------ commit
OutputExists == "Output exists (use --overwrite)"
Saved == "Saved."
SaveFailed == "Failed to save output"

\* safe_write_output without the `final_out.exists() and not overwrite` test.
safe_write_output_no_exists_test(tmp, final, parent_exists, overwrite) ==
    (IF parent_exists THEN {}
     ELSE {[raised |-> TRUE, ok |-> FALSE, msg |-> "mkdir raised",
            final |-> final]})
    \cup
    {[raised |-> FALSE, ok |-> TRUE, msg |-> Saved, final |-> tmp],
     [raised |-> FALSE, ok |-> FALSE, msg |-> SaveFailed, final |-> final]}

\* safe_write_output: what the call can do, given the candidate at tmp_out, the
\* file now at final_out and whether final_out's directory exists.  raised:
\* the directory had to be created and mkdir raised (it is outside the try);
\* else (ok, msg) is returned and final is the file then at final_out.
safe_write_output(tmp, final, parent_exists, overwrite) ==
    (IF parent_exists THEN {}
     ELSE {[raised |-> TRUE, ok |-> FALSE, msg |-> "mkdir raised",
            final |-> final]})
    \cup
    (IF final.exists /\ ~overwrite
     THEN {[raised |-> FALSE, ok |-> FALSE, msg |-> OutputExists,
            final |-> final]}
     ELSE {[raised |-> FALSE, ok |-> TRUE, msg |-> Saved, final |-> tmp],
           [raised |-> FALSE, ok |-> FALSE, msg |-> SaveFailed,
            final |-> final]})

\* compress_one without the size check.
NotSmallerNever(after, before) == FALSE

\* The acceptance policy with `>` for `>=`.
NotSmallerStrict(after, before) == after > before

\* The acceptance policy of compress_one: `if after >= before` rejects.
NotSmaller(after, before) == after >= before

\* A temporary directory that is never removed (mkdtemp for TemporaryDirectory).
CleanupTempLeak(tds, td) == tds

\* Leaving the `with tempfile.TemporaryDirectory(...)` block removes the
\* directory.
CleanupTemp(tds, td) == tds \ {td}

\* ------------------------------------------------------------------- state
VARIABLES
    rerun,        \* TRUE when an earlier invocation ran on this file system
    args,         \* the parsed command line (parse_args)
    pikepdf,      \* TRUE when `import pikepdf` succeeded, FALSE for None
    files,        \* the paths of the existing input files
    dirs,         \* the directories that exist at and under --out
    dstFiles,     \* the file at each destination path
    tmpDirs,      \* the temporary directories that exist
    tmpOut,       \* the file at tmp_out in the current temporary directory
    pc,           \* the statement main / compress_one is at
    exitCode,     \* the process's exit code (-1 while it runs)
    pdfs,         \* main: the sorted list of enumerated files
    idx,          \* main: position of the for loop in pdfs (1-based)
    totals,       \* main: total_before, total_after and the three counts
    summary,      \* main: what the closing summary printed
    co,           \* compress_one: src, dst, before, method, msg, after
    res,          \* the result compress_one last returned
    printed,      \* the sources of the result lines printed so far, in order
    tally,        \* history: the results returned so far in this invocation,
                  \* by outcome, with the sizes of the committed ones
    calls,        \* the strategy calls made for the current file, in order,
                  \* each with what it returned and whether it wrote tmp_out
    dstAtCall     \* history: the file at the destination when compress_one
                  \* was called for the current file

vars ==
    <<rerun, args, pikepdf, files, dirs, dstFiles, tmpDirs, tmpOut, pc,
      exitCode, pdfs, idx, totals, summary, co, res, printed, tally, calls,
      dstAtCall>>

ZeroTotals ==
    [total_before |-> 0, total_after |-> 0, saved_files |-> 0,
     skipped_files |-> 0, failed_files |-> 0]

ZeroTally ==
    [committed |-> 0, rejected |-> 0, failed |-> 0, dry |-> 0,
     before_committed |-> 0, after_committed |-> 0]

\* The history variable tally after one more result.
Tallied(t, r) ==
    IF ~r.skipped
    THEN [t EXCEPT !.committed = @ + 1,
                   !.before_committed = @ + r.before_bytes,
                   !.after_committed = @ + r.after_bytes]
    ELSE IF r.method = MethodFailed THEN [t EXCEPT !.failed = @ + 1]
    ELSE IF r.method = MethodDryRun THEN [t EXCEPT !.dry = @ + 1]
    ELSE [t EXCEPT !.rejected = @ + 1]

NoSummary == [kind |-> "none", saved_bytes |-> 0, pct |-> ZeroPct]

NoLocals ==
    [src |-> None, dst |-> None, before |-> 0, method |-> <<"none">>,
     msg |-> "", after |-> 0]

\* The tiers the command lines of the model ask for: the default and one other.
Qualities == {"ebook", "screen"}

\* The command lines: exactly one of --file / --folder (argparse's group).
ArgSets ==
    {[file |-> f, folder |-> d, out |-> OutDir, quality |-> q,
      overwrite |-> o, recursive |-> r, dry_run |-> y] :
        f \in AllSources \cup {None, TxtFile, MissingPath},
        d \in {None, InRoot, MissingPath, FileTable[1]},
        q \in Qualities,
        o \in BOOLEAN, r \in BOOLEAN, y \in BOOLEAN}

\* --recursive is read in folder mode only: file mode is taken without it.
ValidArgs(a) ==
    /\ (a.file = None) # (a.folder = None)
    /\ a.file # None => ~a.recursive

Exists(p) == p \in files \/ p = InRoot      \* Path.exists
IsDir(p) == p = InRoot                             \* Path.is_dir

\* The temporary directory made for the file now processed.
Td == idx

\* The input files an invocation may find: those its command line looks at.
InitFileSets(a) ==
    IF a.file # None
    THEN IF a.file = TxtFile THEN {{TxtFile}}
         ELSE IF a.file \in AllSources THEN {{}, {a.file}} ELSE {{}}
    ELSE IF a.folder = InRoot THEN SUBSET AllSources
         ELSE IF a.folder = MissingPath THEN {{}} ELSE {{a.folder}}

\* The destinations the command line maps its input files to.
Destinations(a, S) ==
    IF a.file # None
    THEN {ensure_output_path(s, None, a.out) : s \in {x \in S : IsPdfSuffix(x)}}
    ELSE IF a.folder = InRoot
         THEN {ensure_output_path(s, a.folder, a.out) :
                 s \in find_pdfs_in_folder(S, a.folder, a.recursive)}
         ELSE {}

Init ==
    /\ rerun = FALSE
    /\ args \in {a \in ArgSets : ValidArgs(a)}
    /\ pikepdf \in BOOLEAN
    /\ \E S \in InitFileSets(args) :
         /\ files = S
         /\ \E P \in SUBSET Destinations(args, S) :
              /\ dirs \in {D \in SUBSET AllDirs :
                             /\ \A d \in D : Len(d) > 1 => Parent(d) \in D
                             /\ \A f \in P : Parent(f) \in D}
              /\ dstFiles = [d \in AllDests |->
                               IF d \in P THEN File(MaxSize, "pre") ELSE NoFile]
    /\ tmpDirs = {}
    /\ tmpOut = NoFile
    /\ pc = "start"
    /\ exitCode = -1
    /\ pdfs = <<>>
    /\ idx = 1
    /\ totals = ZeroTotals
    /\ summary = NoSummary
    /\ co = NoLocals
    /\ res = NoResult
    /\ printed = <<>>
    /\ tally = ZeroTally
    /\ calls = <<>>
    /\ dstAtCall = NoFile

\* compress_one without the dry-run return.
NeverDryRunReturn(dry_run) == FALSE

\* compress_one, line 176: `if dry_run:` takes the early return.
TakesDryRunReturn(dry_run) == dry_run

\* The fallback attempted whatever the primary returned.
AfterPrimaryAlwaysFallback(ok) == "co_fallback"

\* compress_one, lines 194-199: after the primary, `if ok:` goes on to the
\* candidate check and `else:` to the fallback.
AfterPrimary(ok) == IF ok THEN "co_check" ELSE "co_fallback"

\* The failure message built after `msg = msg2`.
FailedMessageFallbackOnly(msg, msg2) ==
    <<"Compression failed.", "GS:", msg2, "Fallback:", msg2>>

\* compress_one, line 213: the message when both strategies failed.
FailedMessage(msg, msg2) ==
    <<"Compression failed.", "GS:", msg, "Fallback:", msg2>>

\* The fold without the `res.method == "failed"` branch.
FoldTotalsFailedAsSkipped(t, r, dry_run) ==
    LET t1 == [t EXCEPT !.total_before = @ + r.before_bytes] IN
    IF ~r.skipped /\ ~dry_run
    THEN [t1 EXCEPT !.total_after = @ + r.after_bytes, !.saved_files = @ + 1]
    ELSE [t1 EXCEPT !.skipped_files = @ + 1]

\* main, lines 345-354: one result folded into the running totals.
FoldTotals(t, r, dry_run) ==
    LET t1 == [t EXCEPT !.total_before = @ + r.before_bytes] IN
    IF ~r.skipped /\ ~dry_run
    THEN [t1 EXCEPT !.total_after = @ + r.after_bytes, !.saved_files = @ + 1]
    ELSE IF r.method = MethodFailed
         THEN [t1 EXCEPT !.failed_files = @ + 1]
         ELSE [t1 EXCEPT !.skipped_files = @ + 1]

\* compress_one, line 226: the message of the missing candidate.
NoOutputMessage == <<"Compression produced no output file.">>

\* compress_one without the `if not tmp_out.exists()` return.
CandidateNeverMissing(tmp) == FALSE

\* compress_one, line 216: `if not tmp_out.exists()`.
CandidateMissing(tmp) == ~tmp.exists

\* The savings taken to be the size of the candidate.
SavingsOfCandidate(before, after) == after

\* compress_one, lines 254 and 260: `before - after`, computed once the
\* candidate passed the size check.
Savings(before, after) == before - after

\* Single-file mode with the two exit codes exchanged.
FileExitCodeExchanged(r) == IF ~r.skipped THEN 1 ELSE 0

\* main, line 321: the exit code of single-file mode.
FileExitCode(r) == IF ~r.skipped THEN 0 ELSE 1

\* The closing summary without the `if saved_files > 0` test.
SummarizeAlways(t) ==
    LET saved_bytes ==
            IF t.total_after > 0 THEN t.total_before - t.total_after ELSE 0
    IN  [kind |-> "summary", saved_bytes |-> saved_bytes,
         pct |-> Pct(saved_bytes, t.total_before)]

\* main, lines 361-375: the closing summary of a batch that was no dry run.
Summarize(t) ==
    IF t.saved_files > 0
    THEN LET saved_bytes ==
                 IF t.total_after > 0 THEN t.total_before - t.total_after ELSE 0
         IN  [kind |-> "summary", saved_bytes |-> saved_bytes,
              pct |-> Pct(saved_bytes, t.total_before)]
    ELSE [kind |-> "nothing", saved_bytes |-> 0, pct |-> ZeroPct]

\* ------------------------------------------------------------ control flow
InFileMode == args.file # None

\* An exception nobody catches: the interpreter prints the traceback and the
\* process ends with status 1.  Leaving a `with` block by an exception removes
\* its temporary directory as a return does.
Raise(tds) ==
    /\ pc' = "crashed"
    /\ exitCode' = 1
    /\ tmpDirs' = tds
    /\ tmpOut' = NoFile
    /\ co' = NoLocals
    /\ UNCHANGED <<res, tally>>

\* `return CompressResult(...)` of compress_one: its locals are gone, the
\* temporary directories are `tds`, and main goes on at print_result.
Return(r, tds) ==
    /\ res' = r
    /\ tally' = Tallied(tally, r)
    /\ co' = NoLocals
    /\ tmpDirs' = tds
    /\ tmpOut' = NoFile
    /\ pc' = IF InFileMode THEN "file_return" ELSE "fold"
    /\ UNCHANGED exitCode

\* main, lines 303-307: the output directory is created whatever the mode.
MainStart ==
    /\ pc = "start"
    /\ dirs' = dirs \cup {args.out}
    /\ pc' = IF InFileMode THEN "file_mode" ELSE "folder_mode"
    /\ UNCHANGED <<dstAtCall, rerun, args, pikepdf, files, dstFiles, tmpDirs,
                   tmpOut, exitCode, pdfs, idx, totals, summary, co, res,
                   printed, tally, calls>>

\* main, lines 309-319: single-file mode up to the call of compress_one.
FileMode ==
    /\ pc = "file_mode"
    /\ IF ~Exists(args.file) \/ ~IsPdfSuffix(args.file)
       THEN /\ pc' = "exit"
            /\ exitCode' = 2
            /\ UNCHANGED <<co, calls, dstAtCall>>
       ELSE /\ pc' = "co_stat"
            /\ co' = [NoLocals EXCEPT
                        !.src = args.file,
                        !.dst = ensure_output_path(args.file, None, args.out)]
            /\ calls' = <<>>
            /\ dstAtCall' = dstFiles[co'.dst]
            /\ UNCHANGED exitCode
    /\ UNCHANGED <<rerun, args, pikepdf, files, dirs, dstFiles, tmpDirs,
                   tmpOut, pdfs, idx, totals, summary, res, printed, tally>>

\* main, lines 324-338: folder mode up to the for loop.
FolderMode ==
    /\ pc = "folder_mode"
    /\ IF ~Exists(args.folder) \/ ~IsDir(args.folder)
       THEN /\ pc' = "exit"
            /\ exitCode' = 2
            /\ UNCHANGED pdfs
       ELSE /\ pdfs' = sorted(find_pdfs_in_folder(files, args.folder,
                                                   args.recursive))
            /\ IF pdfs' = <<>>
               THEN pc' = "exit" /\ exitCode' = 0
               ELSE pc' = "loop" /\ UNCHANGED exitCode
    /\ idx' = 1
    /\ totals' = ZeroTotals
    /\ UNCHANGED <<dstAtCall, rerun, args, pikepdf, files, dirs, dstFiles,
                   tmpDirs, tmpOut, summary, co, res, printed, tally, calls>>

\* main, lines 340-342: the for loop takes the next file and calls compress_one.
Loop ==
    /\ pc = "loop"
    /\ IF idx <= Len(pdfs)
       THEN /\ pc' = "co_stat"
            /\ co' = [NoLocals EXCEPT
                        !.src = pdfs[idx],
                        !.dst = ensure_output_path(pdfs[idx], args.folder,
                                                   args.out)]
            /\ dstAtCall' = dstFiles[co'.dst]
       ELSE /\ pc' = "after_loop"
            /\ UNCHANGED <<co, dstAtCall>>
    /\ UNCHANGED <<rerun, args, pikepdf, files, dirs, dstFiles, tmpDirs,
                   tmpOut, exitCode, pdfs, idx, totals, summary, res, printed,
                   tally, calls>>

\* compress_one, lines 173-187: the source's size, then the dry-run return.
\* src.stat() raises when the source cannot be read, else reports its size.
CoStat ==
    /\ pc = "co_stat"
    /\ \E readable \in BOOLEAN, before \in Sizes :
         IF ~readable
         THEN Raise(tmpDirs)
         ELSE IF TakesDryRunReturn(args.dry_run)
              THEN Return(CompressResult(co.src, co.dst, MethodDryRun, before,
                                         before, 0, ZeroPct, TRUE,
                                         <<"Dry run: no file written.">>),
                          tmpDirs)
              ELSE /\ co' = [co EXCEPT !.before = before]
                   /\ pc' = "co_tmp"
                   /\ UNCHANGED <<res, tally, tmpDirs, tmpOut, exitCode>>
    /\ UNCHANGED <<dstAtCall, rerun, args, pikepdf, files, dirs, dstFiles,
                   pdfs, idx, totals, summary, printed, calls>>

\* compress_one, lines 189-190: enter the TemporaryDirectory block.
CoTmp ==
    /\ pc = "co_tmp"
    /\ tmpDirs' = tmpDirs \cup {Td}
    /\ tmpOut' = NoFile
    /\ pc' = "co_gs"
    /\ UNCHANGED <<dstAtCall, rerun, args, pikepdf, files, dirs, dstFiles,
                   exitCode, pdfs, idx, totals, summary, co, res, printed,
                   tally, calls>>

\* compress_one, lines 193-197: the primary strategy.
CoGhostscript ==
    /\ pc = "co_gs"
    /\ \E o \in run_ghostscript_compress(args.quality) :
         /\ calls' = Append(calls, [strategy |-> "ghostscript", ok |-> o.ok,
                                    msg |-> o.msg, wrote |-> o.out.exists])
         /\ tmpOut' = IF o.out.exists THEN o.out ELSE tmpOut
         /\ co' = IF o.ok
                  THEN [co EXCEPT !.method = MethodGhostscript(args.quality),
                                  !.msg = o.msg]
                  ELSE [co EXCEPT !.msg = o.msg]
         /\ pc' = AfterPrimary(o.ok)
    /\ UNCHANGED <<dstAtCall, rerun, args, pikepdf, files, dirs, dstFiles,
                   tmpDirs, exitCode, pdfs, idx, totals, summary, res,
                   printed, tally>>

\* compress_one, lines 198-214: the fallback strategy.
CoFallback ==
    /\ pc = "co_fallback"
    /\ \E o \in run_pikepdf_optimize(pikepdf) :
         /\ calls' = Append(calls, [strategy |-> "pikepdf", ok |-> o.ok,
                                    msg |-> o.msg, wrote |-> o.out.exists])
         /\ IF o.ok
            THEN /\ tmpOut' = IF o.out.exists THEN o.out ELSE tmpOut
                 /\ co' = [co EXCEPT !.method = MethodPikepdf, !.msg = o.msg]
                 /\ pc' = "co_check"
                 /\ UNCHANGED <<res, tally, tmpDirs, exitCode>>
            ELSE Return(CompressResult(co.src, co.dst, MethodFailed, co.before,
                                       co.before, 0, ZeroPct, TRUE,
                                       FailedMessage(co.msg, o.msg)),
                        CleanupTemp(tmpDirs, Td))
    /\ UNCHANGED <<dstAtCall, rerun, args, pikepdf, files, dirs, dstFiles,
                   pdfs, idx, totals, summary, printed>>

\* compress_one, lines 216-243: the candidate must exist and be smaller.
CoCheck ==
    /\ pc = "co_check"
    /\ IF CandidateMissing(tmpOut)
       THEN Return(CompressResult(co.src, co.dst, MethodFailed, co.before,
                                  co.before, 0, ZeroPct, TRUE,
                                  NoOutputMessage),
                   CleanupTemp(tmpDirs, Td))
       ELSE LET after == tmpOut.size IN
            IF NotSmaller(after, co.before)
            THEN Return(CompressResult(co.src, co.dst, co.method, co.before,
                                       after, 0, ZeroPct, TRUE,
                                       <<"Skipped: output not smaller",
                                         co.msg>>),
                        CleanupTemp(tmpDirs, Td))
            ELSE /\ co' = [co EXCEPT !.after = after]
                 /\ pc' = "co_commit"
                 /\ UNCHANGED <<res, tally, tmpDirs, tmpOut, exitCode>>
    /\ UNCHANGED <<dstAtCall, rerun, args, pikepdf, files, dirs, dstFiles,
                   pdfs, idx, totals, summary, printed, calls>>

\* compress_one, lines 245-272: commit by safe_write_output, then the result.
CoCommit ==
    /\ pc = "co_commit"
    /\ \E w \in safe_write_output(tmpOut, dstFiles[co.dst],
                                   Parent(co.dst) \in dirs, args.overwrite) :
         IF w.raised
         THEN /\ Raise(CleanupTemp(tmpDirs, Td))
              /\ UNCHANGED <<dstFiles, dirs>>
         ELSE /\ dstFiles' = [dstFiles EXCEPT ![co.dst] = w.final]
              /\ dirs' = dirs \cup {Parent(co.dst)}
              /\ LET saved == Savings(co.before, co.after) IN
                 IF ~w.ok
                 THEN Return(CompressResult(co.src, co.dst, co.method,
                                            co.before, co.after, saved,
                                            Pct(saved, co.before), TRUE,
                                            <<w.msg>>),
                             CleanupTemp(tmpDirs, Td))
                 ELSE Return(CompressResult(co.src, co.dst, co.method,
                                            co.before, co.after, saved,
                                            Pct(saved, co.before), FALSE,
                                            <<co.msg>>),
                             CleanupTemp(tmpDirs, Td))
    /\ UNCHANGED <<dstAtCall, rerun, args, pikepdf, files, pdfs, idx, totals,
                   summary, printed, calls>>

\* main, lines 320-321: single-file mode prints the result and exits.
FileReturn ==
    /\ pc = "file_return"
    /\ printed' = Append(printed, res.src)
    /\ exitCode' = FileExitCode(res)
    /\ pc' = "exit"
    /\ UNCHANGED <<dstAtCall, rerun, args, pikepdf, files, dirs, dstFiles,
                   tmpDirs, tmpOut, pdfs, idx, totals, summary, co, res,
                   tally, calls>>

\* main, lines 343-354: the loop body after compress_one returned; res is not
\* read again before the next call assigns it.
Fold ==
    /\ pc = "fold"
    /\ printed' = Append(printed, res.src)
    /\ totals' = FoldTotals(totals, res, args.dry_run)
    /\ idx' = idx + 1
    /\ res' = NoResult
    /\ dstAtCall' = NoFile
    /\ calls' = <<>>
    /\ pc' = "loop"
    /\ UNCHANGED <<rerun, args, pikepdf, files, dirs, dstFiles, tmpDirs,
                   tmpOut, exitCode, pdfs, summary, co, tally>>

\* main, lines 356-377: after the loop.
AfterLoop ==
    /\ pc = "after_loop"
    /\ summary' = IF args.dry_run
                  THEN [kind |-> "dry_run", saved_bytes |-> 0, pct |-> ZeroPct]
                  ELSE Summarize(totals)
    /\ exitCode' = 0
    /\ pc' = "exit"
    /\ UNCHANGED <<dstAtCall, rerun, args, pikepdf, files, dirs, dstFiles,
                   tmpDirs, tmpOut, pdfs, idx, totals, co, res, printed,
                   tally, calls>>

\* The same command is given again, with or without --overwrite, on the file
\* system the previous invocation left.
Rerun ==
    /\ pc \in {"exit", "crashed"}
    /\ rerun' = TRUE
    /\ \E o \in BOOLEAN : args' = [args EXCEPT !.overwrite = o]
    /\ pc' = "start"
    /\ exitCode' = -1
    /\ pdfs' = <<>>
    /\ idx' = 1
    /\ totals' = ZeroTotals
    /\ summary' = NoSummary
    /\ co' = NoLocals
    /\ res' = NoResult
    /\ printed' = <<>>
    /\ tally' = ZeroTally
    /\ calls' = <<>>
    /\ dstAtCall' = NoFile
    /\ UNCHANGED <<pikepdf, files, dirs, dstFiles, tmpDirs, tmpOut>>

Next ==
    \/ MainStart
    \/ FileMode
    \/ FolderMode
    \/ Loop
    \/ CoStat
    \/ CoTmp
    \/ CoGhostscript
    \/ CoFallback
    \/ CoCheck
    \/ CoCommit
    \/ FileReturn
    \/ Fold
    \/ AfterLoop
    \/ Rerun

Spec == Init /\ [][Next]_vars

\* ------------------------------------------------------------------ claims
ReturnedPcs == {"file_return", "fold"}     \* compress_one has just returned
InTempBlock == {"co_gs", "co_fallback", "co_check", "co_commit"}
Produced == {"ghostscript", "pikepdf"}     \* origins of committed outputs

Contains(seq, x) == \E i \in 1..Len(seq) : seq[i] = x

ValidInput ==
    IF InFileMode
    THEN Exists(args.file) /\ IsPdfSuffix(args.file)
    ELSE Exists(args.folder) /\ IsDir(args.folder)

\* C1: a result with skipped = FALSE has after_bytes < before_bytes, and a
\* file of size after_bytes, the committed candidate, is at its destination.
C1_CommittedIsSmallerAndOnDisk ==
    ~res.skipped =>
        /\ res.after_bytes < res.before_bytes
        /\ dstFiles[res.dst].exists
        /\ dstFiles[res.dst].size = res.after_bytes
        /\ dstFiles[res.dst].origin \in Produced

\* C1 witness: a commit that replaced a file already at the destination.
C1_Witness ==
    /\ pc \in ReturnedPcs
    /\ ~res.skipped
    /\ dstAtCall.exists
    /\ args.overwrite

\* C2: in a dry run no step changes a file at a destination, creates a
\* temporary directory or calls a strategy, and every result returned has
\* method dry-run, skipped = TRUE and after_bytes = before_bytes.
C2_DryRunTouchesNoFile ==
    [][args.dry_run =>
          /\ dstFiles' = dstFiles
          /\ tmpDirs' = tmpDirs
          /\ tmpOut' = tmpOut
          /\ calls' = <<>>
          /\ pc' \notin InTempBlock
          /\ res' # NoResult =>
                /\ res'.method = MethodDryRun
                /\ res'.skipped
                /\ res'.after_bytes = res'.before_bytes]_vars

\* C2 witness: a dry run has returned a result for a file whose destination
\* does not exist.
C2_Witness ==
    /\ args.dry_run
    /\ pc \in ReturnedPcs
    /\ res.method = MethodDryRun
    /\ ~dstFiles[res.dst].exists

\* The strategy calls for one file: the primary first, the fallback only after
\* the primary failed, each at most once.
CallsInOrder ==
    /\ Len(calls) <= 2
    /\ Len(calls) >= 1 => calls[1].strategy = "ghostscript"
    /\ Len(calls) = 2 => calls[2].strategy = "pikepdf" /\ ~calls[1].ok

PrimarySucceeded ==
    pc \in ReturnedPcs /\ Len(calls) >= 1 /\ calls[1].ok

\* C3 as stated: the strategies are called in order, each at most once, the
\* fallback only after the primary failed, and when the primary succeeded the
\* result's method is the primary with its quality tier.
C3_Original ==
    /\ CallsInOrder
    /\ PrimarySucceeded => res.method = MethodGhostscript(args.quality)

\* C3 amended: as C3, but when the primary succeeded the result's method is the
\* primary with its quality tier or, when the primary left no candidate file,
\* failed with the no-output message.
C3_OrderedFallback ==
    /\ CallsInOrder
    /\ PrimarySucceeded =>
          \/ res.method = MethodGhostscript(args.quality)
          \/ /\ res.method = MethodFailed
             /\ res.message = <<"Compression produced no output file.">>

\* C3 witness: the primary succeeded, the fallback was not called and the
\* result carries the primary's name.
C3_Witness ==
    /\ PrimarySucceeded
    /\ Len(calls) = 1
    /\ res.method = MethodGhostscript(args.quality)

\* C4: when the primary and the fallback both failed the result is failed:
\* skipped, after_bytes = before_bytes, saved_bytes = 0, the destination as it
\* was, and a message holding both failure reasons.
C4_BothFailedIsFailed ==
    (pc \in ReturnedPcs /\ Len(calls) = 2 /\ ~calls[1].ok /\ ~calls[2].ok) =>
        /\ res.method = MethodFailed
        /\ res.skipped
        /\ res.after_bytes = res.before_bytes
        /\ res.saved_bytes = 0
        /\ dstFiles[res.dst] = dstAtCall
        /\ Contains(res.message, calls[1].msg)
        /\ Contains(res.message, calls[2].msg)

\* C4 witness: both strategies were unavailable.
C4_Witness ==
    /\ pc \in ReturnedPcs
    /\ Len(calls) = 2
    /\ calls[1].msg = GsNotFound
    /\ calls[2].msg = PikepdfMissing
    /\ res.method = MethodFailed

\* C5: no per-file error aborts the batch: whatever fails while a file of a
\* folder is processed, the program does not end on an exception.
C5_NoErrorAbortsBatch ==
    ~InFileMode => pc # "crashed"

\* C6 as stated: in a re-run without --overwrite (and no dry run), the result
\* for a file whose output a previous run produced is skipped with the
\* output-exists message, and the file at the destination is as it was.
C6_Original ==
    (rerun /\ ~args.overwrite /\ ~args.dry_run /\ pc \in ReturnedPcs
        /\ dstAtCall.origin \in Produced) =>
        /\ res.skipped
        /\ res.message = <<OutputExists>>
        /\ dstFiles[res.dst] = dstAtCall

\* C6 amended: in a re-run without --overwrite no step changes an existing
\* file at a destination, and the result for a file whose output a previous run
\* produced is skipped, with the output-exists message whenever a strategy
\* again produced a candidate smaller than the source.
C6_RerunKeepsOutputs ==
    [][(rerun /\ ~args.overwrite) =>
          /\ \A d \in AllDests :
                dstFiles[d].exists => dstFiles'[d] = dstFiles[d]
          /\ (pc \notin ReturnedPcs /\ pc' \in ReturnedPcs
                /\ dstAtCall.origin \in Produced) =>
                /\ res'.skipped
                /\ res'.after_bytes < res'.before_bytes =>
                      res'.message = <<OutputExists>>]_vars

\* C6 witness: a re-run without --overwrite met the output of a previous run
\* and returned the output-exists result.
C6_Witness ==
    /\ rerun
    /\ ~args.overwrite
    /\ pc \in ReturnedPcs
    /\ dstAtCall.origin \in Produced
    /\ res.message = <<OutputExists>>

\* C7: the summary of a batch that was no dry run is computed over the
\* committed files only: total_before and total_after are the sums of their
\* before_bytes and after_bytes, and the percentage is derived from the two.
C7_TotalsOverCommitted ==
    (pc = "exit" /\ summary.kind \in {"summary", "nothing"}) =>
        /\ totals.total_before = tally.before_committed
        /\ totals.total_after = tally.after_committed
        /\ totals.saved_files = tally.committed
        /\ summary.kind = "summary" =>
              summary.pct = Pct(tally.before_committed - tally.after_committed,
                                tally.before_committed)

\* C8: in a batch that is no dry run, between two files and after the loop,
\* saved_files counts the committed results, skipped_files those rejected for
\* size or for a commit failure, failed_files those with method failed; after
\* the loop the three sum to the number of enumerated files.
C8_CountsPartitionFiles ==
    (~InFileMode /\ ~args.dry_run /\ pc \in {"loop", "after_loop"}) =>
        /\ totals.saved_files = tally.committed
        /\ totals.skipped_files = tally.rejected
        /\ totals.failed_files = tally.failed
        /\ totals.saved_files + totals.skipped_files + totals.failed_files
             = idx - 1
        /\ pc = "after_loop" => idx - 1 = Len(pdfs)

\* C8 witness: a batch of two files ended with one failed and one not.
C8_Witness ==
    /\ ~InFileMode
    /\ ~args.dry_run
    /\ pc = "after_loop"
    /\ Len(pdfs) = 2
    /\ totals.failed_files = 1
    /\ totals.saved_files + totals.skipped_files = 1

\* C9: at most one temporary directory exists, only while compress_one is
\* inside its TemporaryDirectory block for the current file; none exists
\* between two files, after the batch or after an exception.
C9_TempDirScopedToFile ==
    /\ Cardinality(tmpDirs) <= 1
    /\ tmpDirs # {} => (pc \in InTempBlock /\ tmpDirs = {Td})

\* C9 witness: the second file of a batch is in its temporary directory after
\* the first file's output was committed.
C9_Witness ==
    /\ pc = "co_gs"
    /\ idx = 2
    /\ tmpDirs = {Td}
    /\ tally.committed = 1

\* C10: a dry run on valid input exits with code 0, in single-file mode as in
\* folder mode.
C10_DryRunExitsZero ==
    (pc = "exit" /\ args.dry_run /\ ValidInput) => exitCode = 0

Max0(n) == IF n > 0 THEN n ELSE 0

\* Two fractions of the same value.
PctEq(a, b) == a.num * b.den = b.num * a.den

SizeRejected(r) ==
    r.skipped /\ r.method \notin {MethodFailed, MethodDryRun}
        /\ r.after_bytes >= r.before_bytes

CommitFailed(r) ==
    r.skipped /\ r.method \notin {MethodFailed, MethodDryRun}
        /\ r.after_bytes < r.before_bytes

\* C12: every result has saved_bytes = max(0, before_bytes - after_bytes) and
\* saved_pct = saved_bytes / before_bytes * 100 (0 when before_bytes = 0); a
\* size-rejected result has saved_bytes = 0 and the name of the strategy that
\* reported success; a commit-failure result carries before - after.
C12_SavingsOfEveryResult ==
    res # NoResult =>
        /\ res.saved_bytes = Max0(res.before_bytes - res.after_bytes)
        /\ PctEq(res.saved_pct, Pct(res.saved_bytes, res.before_bytes))
        /\ res.before_bytes = 0 => res.saved_pct = ZeroPct
        /\ SizeRejected(res) =>
              /\ res.saved_bytes = 0
              /\ calls # <<>>
              /\ calls[Len(calls)].ok
              /\ res.method[1] = calls[Len(calls)].strategy
        /\ CommitFailed(res) =>
              /\ res.saved_bytes = res.before_bytes - res.after_bytes
              /\ res.saved_bytes > 0

\* C12 witness: a commit failed and the result carries savings that are not
\* on disk.
C12_Witness ==
    /\ pc \in ReturnedPcs
    /\ CommitFailed(res)
    /\ res.saved_bytes > 0
    /\ dstFiles[res.dst] = dstAtCall

\* C15: when a strategy has reported success and no file is at tmp_out, the
\* next step returns the failed result (method failed, skipped, after_bytes =
\* before_bytes, the no-output message); the size check and the commit are
\* not reached and no destination file changes.
C15_NoCandidateIsFailed ==
    [][(pc = "co_check" /\ calls[Len(calls)].ok /\ ~tmpOut.exists) =>
          /\ pc' \in ReturnedPcs
          /\ res'.method = MethodFailed
          /\ res'.skipped
          /\ res'.after_bytes = res'.before_bytes
          /\ res'.before_bytes = co.before
          /\ res'.saved_bytes = 0
          /\ res'.message = NoOutputMessage
          /\ dstFiles' = dstFiles]_vars

\* C15 witness: the primary reported success, left no file, and the failed
\* result was returned with the destination as it was.
C15_Witness ==
    /\ pc \in ReturnedPcs
    /\ Len(calls) = 1
    /\ calls[1].ok
    /\ res.method = MethodFailed
    /\ res.message = NoOutputMessage
    /\ dstFiles[res.dst] = dstAtCall

\* compress_one is at work on a file.
InCompressOne == {"co_stat", "co_tmp"} \cup InTempBlock

\* C16: in folder mode the enumerated files are in ascending path order (looked
\* at whenever the loop is at its head: pdfs is assigned once, before the
\* loop); the result lines printed are those of the first files, in that
\* order; while compress_one works on file idx the results of exactly the
\* idx - 1 files before it have been returned, printed and folded into the
\* totals.
C16_OneAtATimeInOrder ==
    ~InFileMode =>
        /\ pc = "loop" =>
              \A i, j \in 1..Len(pdfs) : i < j => PathLess(pdfs[i], pdfs[j])
        /\ Len(printed) <= Len(pdfs)
        /\ \A i \in 1..Len(printed) : printed[i] = pdfs[i]
        /\ pc \in InCompressOne \cup {"fold"} =>
              /\ idx <= Len(pdfs)
              /\ Len(printed) = idx - 1
              /\ totals.saved_files + totals.skipped_files
                   + totals.failed_files = idx - 1
        /\ pc \in InCompressOne =>
              /\ co.src = pdfs[idx]
              /\ tally.committed + tally.rejected + tally.failed + tally.dry
                   = idx - 1
        /\ pc = "fold" =>
              /\ res.src = pdfs[idx]
              /\ tally.committed + tally.rejected + tally.failed + tally.dry
                   = idx
        /\ pc = "after_loop" => printed = pdfs

\* C16 witness: a recursive batch has printed the result of in/a.pdf and then
\* that of in/sub/a.pdf.
C16_Witness ==
    /\ ~InFileMode
    /\ pc = "after_loop"
    /\ pdfs = << <<"in", "a.pdf">>, <<"in", "sub", "a.pdf">> >>
    /\ printed = pdfs

\* C17: a step changes a file that exists at a destination only when it is the
\* commit of the current file, --overwrite was given, it is no dry run and the
\* candidate is strictly smaller than the source; the file is then the
\* candidate.  A result that is skipped for another reason than a failed move,
\* or returned without --overwrite, leaves a file that was at the destination
\* as it was.
C17_ReplacedOnlyOnOverwrite ==
    [][/\ \A d \in AllDests :
            (dstFiles[d].exists /\ dstFiles'[d] # dstFiles[d]) =>
                /\ args.overwrite
                /\ ~args.dry_run
                /\ pc = "co_commit"
                /\ d = co.dst
                /\ tmpOut.exists
                /\ tmpOut.size < co.before
                /\ dstFiles'[d] = tmpOut
                /\ ~res'.skipped
       /\ (pc \notin ReturnedPcs /\ pc' \in ReturnedPcs /\ dstAtCall.exists
              /\ res'.message # <<SaveFailed>>
              /\ (res'.skipped \/ ~args.overwrite)) =>
                /\ res'.skipped
                /\ dstFiles'[res'.dst] = dstAtCall]_vars

\* C17 witness: with --overwrite a file that was at the destination before the
\* program ran has been replaced by a committed candidate.
C17_Witness ==
    /\ pc \in ReturnedPcs
    /\ args.overwrite
    /\ dstAtCall.origin = "pre"
    /\ dstFiles[res.dst].origin \in Produced
    /\ dstFiles[res.dst].size < res.before_bytes

\* C18: the candidate that is size-checked and committed was written by the
\* strategy named in the result's method, in the call that reported success;
\* a file a failed primary left at tmp_out is not the one measured or
\* committed, under either name.
C18_CandidateOfNamedStrategy ==
    /\ (pc \in {"co_check", "co_commit"} /\ tmpOut.exists) =>
          /\ calls[Len(calls)].ok
          /\ calls[Len(calls)].wrote
          /\ tmpOut.origin = calls[Len(calls)].strategy
          /\ co.method[1] = tmpOut.origin
    /\ (pc \in ReturnedPcs /\ ~res.skipped) =>
          /\ dstFiles[res.dst].origin = res.method[1]
          /\ calls[Len(calls)].strategy = res.method[1]
          /\ calls[Len(calls)].ok

\* C18 witness: the primary failed and left a file at tmp_out, the fallback
\* succeeded, and the candidate now checked is the fallback's.
C18_Witness ==
    /\ pc = "co_check"
    /\ Len(calls) = 2
    /\ ~calls[1].ok
    /\ calls[1].wrote
    /\ calls[2].ok
    /\ tmpOut.origin = "pikepdf"

\* The destination main gives the i-th enumerated file.
DstOf(i) == ensure_output_path(pdfs[i], args.folder, args.out)

\* C19: in folder mode distinct enumerated sources have distinct destinations
\* (looked at whenever the loop is at its head), and the destination of a
\* commit is that of the current file and not that of a file processed earlier
\* in the batch: no commit replaces the output of another source of the batch.
C19_DistinctDestinations ==
    ~InFileMode =>
        /\ pc = "loop" =>
              \A i, j \in 1..Len(pdfs) : i # j => DstOf(i) # DstOf(j)
        /\ pc = "co_commit" =>
              /\ co.dst = DstOf(idx)
              /\ \A i \in 1..Len(printed) : co.dst # DstOf(i)

\* C19 witness: in/a.pdf and in/sub/a.pdf, of the same file name, were both
\* committed in one batch, each at its own destination.
C19_Witness ==
    /\ ~InFileMode
    /\ pc = "after_loop"
    /\ pdfs = << <<"in", "a.pdf">>, <<"in", "sub", "a.pdf">> >>
    /\ tally.committed = 2
    /\ dstFiles[<<"out", "a.pdf">>].origin \in Produced
    /\ dstFiles[<<"out", "sub", "a.pdf">>].origin \in Produced

\* A batch in folder mode that was no dry run has gone through its loop and
\* main has returned.
BatchEnded ==
    /\ pc = "exit"
    /\ ~InFileMode
    /\ ~args.dry_run
    /\ pdfs # <<>>

\* C14: at the end of a batch that was no dry run, the nothing-compressed
\* summary is emitted, with no percentage, exactly when no file was
\* committed, the aggregate summary exactly when saved_files > 0, and the
\* divisor of its percentage, total_before, is then not zero.
C14_SummaryKind ==
    BatchEnded =>
        /\ summary.kind \in {"summary", "nothing"}
        /\ summary.kind = "nothing" <=> tally.committed = 0
        /\ summary.kind = "summary" <=> totals.saved_files > 0
        /\ summary.kind = "nothing" => summary.pct = ZeroPct
        /\ summary.kind = "summary" =>
              /\ totals.total_before > 0
              /\ summary.pct.den = totals.total_before

\* C14 witness: a batch of two files ended with none committed.
C14_Witness ==
    /\ BatchEnded
    /\ Len(pdfs) = 2
    /\ tally.committed = 0
    /\ summary.kind = "nothing"

\* ------------------------------------------------- ensure_output_path alone
\* The paths of at most n components over a few names.
PathNames == {"in", "a", "b.pdf", "out"}

PathsUpTo(n) == UNION {[1..k -> PathNames] : k \in 1..n}

\* A call ensure_output_path(src, input_root, out_dir) on arbitrary paths:
\* co.src is src, args.folder is input_root, args.out is out_dir.
PathMapperInit ==
    /\ \E src \in PathsUpTo(MaxDepth),
          root \in {None} \cup PathsUpTo(2),
          out \in {OutDir, <<"out", "a">>} :
         /\ co = [NoLocals EXCEPT !.src = src]
         /\ args = [file |-> None, folder |-> root, out |-> out,
                    quality |-> "ebook", overwrite |-> FALSE,
                    recursive |-> FALSE, dry_run |-> FALSE]
    /\ pc = "pm_call"
    /\ rerun = FALSE
    /\ pikepdf = FALSE
    /\ files = {}
    /\ dirs = {}
    /\ dstFiles = [d \in AllDests |-> NoFile]
    /\ tmpDirs = {}
    /\ tmpOut = NoFile
    /\ exitCode = -1
    /\ pdfs = <<>>
    /\ idx = 1
    /\ totals = ZeroTotals
    /\ summary = NoSummary
    /\ res = NoResult
    /\ printed = <<>>
    /\ tally = ZeroTally
    /\ calls = <<>>
    /\ dstAtCall = NoFile

PathMapperApply ==
    /\ pc = "pm_call"
    /\ co' = [co EXCEPT !.dst = ensure_output_path(co.src, args.folder,
                                                   args.out)]
    /\ pc' = "pm_done"
    /\ UNCHANGED <<rerun, args, pikepdf, files, dirs, dstFiles, tmpDirs,
                   tmpOut, exitCode, pdfs, idx, totals, summary, res, printed,
                   tally, calls, dstAtCall>>

PathMapperSpec == PathMapperInit /\ [][PathMapperApply]_vars

\* C13: with no batch root the destination is the output root / the source's
\* file name; with a batch root that contains the source it is the output
\* root / the source's path relative to the root (/in/a/b.pdf, root /in,
\* output root /out: /out/a/b.pdf); with a root that does not contain the
\* source it is the output root / the source's file name.
C13_PathMapper ==
    pc = "pm_done" =>
        LET src == co.src
            root == args.folder
            out == args.out
            dst == co.dst
            rel == SubSeq(dst, Len(out) + 1, Len(dst))
        IN  /\ SubSeq(dst, 1, Len(out)) = out
            /\ root = None => rel = <<src[Len(src)]>>
            /\ (root # None /\ \E r \in PathsUpTo(MaxDepth) \cup {<<>>} :
                                  src = root \o r)
                  => root \o rel = src
            /\ (root # None /\ \A r \in PathsUpTo(MaxDepth) \cup {<<>>} :
                                  src # root \o r)
                  => rel = <<src[Len(src)]>>
            /\ (src = <<"in", "a", "b.pdf">> /\ root = <<"in">>
                   /\ out = <<"out">>) => dst = <<"out", "a", "b.pdf">>

\* C13 witness: the source lies two levels under the batch root and its
\* destination keeps the sub-folder.
C13_Witness ==
    /\ pc = "pm_done"
    /\ co.src = <<"in", "a", "b.pdf">>
    /\ args.folder = <<"in">>
    /\ co.dst = args.out \o <<"a", "b.pdf">>

====
